---- MODULE Spec2Model ----
(***************************************************************************)
(* The chat turn handler of backend/chat_service.py (process_chat_message, *)
(* create_new_chat, summarize_conversation, build_context_prompt,          *)
(* execute_function_call) and the session endpoints of backend/main.py,    *)
(* as a state machine over the stored user document and the turns in       *)
(* flight.  Every collaborator call (database, model, job search) is one   *)
(* step of a turn; turns of different requests interleave between steps.   *)
(***************************************************************************)
EXTENDS Naturals, Sequences, FiniteSets, TLC

(***************************************************************************)
(* Bounds of the model.                                                    *)
(***************************************************************************)
MaxTurns == 2        \* turns started in a run of Spec or SpecRace
MaxLongTurns == 7    \* turns started in a run of SpecLong
MaxChats == 2        \* sessions ever created in a run of SpecRace
MaxJobs == 12        \* jobs in the longest answer of the job search in SpecTool

Procs == {"t1", "t2"}   \* request handlers that can be in flight together

(***************************************************************************)
(* Texts are strings.  "" stands for both None and the empty string where  *)
(* the code only tests truthiness (selected_job_id, text parts).           *)
(***************************************************************************)
Email == "e1"
UnknownEmail == "e0"
LongText == "0123456789012345678901234567890123456789012345678901234"
UserTexts == {"u1", LongText}
JobIds == {"", "j1"}

Greeting == "Hello there! I'm JobBot AI"
NewChatName == "New Job Search"
ChatNotFound == "Chat session not found."
UserNotFound == "User not found. Please complete onboarding first."
Apology == "I apologize, but I encountered an error. Please try again."
Fallback == "I found the information you requested. Let me know if you need anything else!"
DefaultText == "I'm here to help you with your job search. What would you like to know?"
ProfileFallback == "User: Unknown. Skills: . Location: Not specified."

WindowCap == 10
NameCap == 50

VARIABLES
  chat_history,   \* the user document's chat_history array (db.users)
  nextId,         \* ObjectId generator: ids handed out so far
  started,        \* turns started so far
  pc,             \* per request handler: position in process_chat_message
  req,            \* per handler: the arguments of process_chat_message
  chat,           \* per handler: the chat dict read by find_one, mutated in memory
  chat_index,     \* per handler: position of chat in chat_history at read time
  response,       \* per handler: parts of the first model reply
  final_response, \* per handler: parts of the reply to the tool result
  function_result, \* per handler: model-facing result of execute_function_call
  job_cards,      \* per handler
  selected_job_details, \* per handler
  final_response_text, \* per handler
  result,         \* per handler: what process_chat_message returned
  log,            \* per handler: the collaborator calls of the current turn, in order,
                  \* each with what was passed and whether it raised
  summarized      \* every entry handed to summarize_conversation so far, in
                  \* order, with the session and the user message of the turn

vars == <<chat_history, nextId, started, pc, req, chat, chat_index, response,
          final_response, function_result, job_cards, selected_job_details,
          final_response_text, result, log, summarized>>


(***************************************************************************)
(* Values.  A message is its sender and text (timestamps and the window    *)
(* entry's selected_job_id are written but never read by the handler).     *)
(***************************************************************************)
Msg(sender, text) == [sender |-> sender, message |-> text]

\* A Python value that is None, a list of job cards or one job card; a card
\* is identified by its job_id.
PyNone == [kind |-> "none", items |-> <<>>, job_id |-> ""]
PyList(cards) == [kind |-> "list", items |-> cards, job_id |-> ""]
PyCard(id) == [kind |-> "card", items |-> <<>>, job_id |-> id]
Truthy(v) == v.kind = "card" \/ (v.kind = "list" /\ v.items # <<>>)

ArgKeys == {"query", "num_pages", "job_id"}
Args(keys, query, num_pages, job_id) ==
  [keys |-> keys, query |-> query, num_pages |-> num_pages, job_id |-> job_id]
NoArgs == Args({}, "", 0, "")

\* A reply part (protos.Part): a text part has an empty function_call, a
\* function_call part has an empty text.
NoCall == [name |-> "", args |-> NoArgs]
TextPart(t) == [text |-> t, function_call |-> NoCall]
CallPart(name, args) == [text |-> "", function_call |-> [name |-> name, args |-> args]]
IsCall(part) == part.function_call # NoCall

SearchCall == CallPart("search_jobs", Args({"query"}, "q", 0, ""))
DetailsCall == CallPart("get_job_details", Args({"job_id"}, "", 0, "j1"))

Last(s) == s[Len(s)]
Take(s, n) == IF Len(s) > n THEN SubSeq(s, 1, n) ELSE s      \* s[:n]
\* Mutant of Tail10: the slice keeps the first 10 entries.
First10(s) == IF Len(s) > WindowCap THEN SubSeq(s, 1, WindowCap) ELSE s
Tail10(s) == IF Len(s) > WindowCap THEN SubSeq(s, Len(s) - WindowCap + 1, Len(s)) ELSE s  \* s[-10:]
DropTail10(s) == IF Len(s) > WindowCap THEN SubSeq(s, 1, Len(s) - WindowCap) ELSE <<>>    \* s[:-10]

StartsWith(line, prefix) ==                                   \* str.startswith
  Len(line) >= Len(prefix) /\ SubSeq(line, 1, Len(prefix)) = prefix

RECURSIVE JoinTexts(_)
JoinTexts(parts) ==
  IF parts = <<>> THEN "" ELSE Head(parts).text \o JoinTexts(Tail(parts))

CallIndexes(parts) == {i \in 1..Len(parts) : IsCall(parts[i])}
HasCall(parts) == CallIndexes(parts) # {}
Max(S) == CHOOSE x \in S : \A y \in S : y <= x
Min(S) == CHOOSE x \in S : \A y \in S : x <= y

\* The loop of lines 444-448: every function_call part overwrites
\* function_call_part, every non-empty text part is appended to text_response.
FunctionCallPart(parts) ==
  IF HasCall(parts) THEN parts[Max(CallIndexes(parts))].function_call ELSE NoCall
RECURSIVE TextLoop(_, _)
TextLoop(parts, text_response) ==
  IF parts = <<>> THEN text_response
  ELSE TextLoop(Tail(parts),
                IF IsCall(Head(parts)) THEN text_response
                ELSE IF Head(parts).text # "" THEN text_response \o Head(parts).text
                ELSE text_response)
\* Mutant of TextResponse: only the first text part is kept.
TextResponseFirst(parts) ==
  IF {i \in 1..Len(parts) : parts[i].text # ""} = {} THEN ""
  ELSE parts[Min({i \in 1..Len(parts) : parts[i].text # ""})].text

TextResponse(parts) == TextLoop(parts, "")

\* response.text of the model library: the joined text parts; ValueError when
\* the reply has no parts or holds a part that is not text.
TextRaises(parts) == parts = <<>> \/ HasCall(parts)
ResponseText(parts) == JoinTexts(parts)

\* Lines 492-501: the text of the reply to the tool result.
FirstTextIndexes(parts) == {i \in 1..Len(parts) : ~IsCall(parts[i]) /\ parts[i].text # ""}
\* Mutant of FinalTextAfterTool: the scan keeps the last text part.
FinalTextLastPart(parts) ==
  IF ~TextRaises(parts) THEN ResponseText(parts)
  ELSE IF FirstTextIndexes(parts) # {} THEN parts[Max(FirstTextIndexes(parts))].text
  ELSE Fallback

FinalTextAfterTool(parts) ==
  IF ~TextRaises(parts) THEN ResponseText(parts)
  ELSE IF FirstTextIndexes(parts) # {} THEN parts[Min(FirstTextIndexes(parts))].text
  ELSE Fallback

\* Line 558.
ChatName(user_message) ==
  Take(user_message, NameCap) \o (IF Len(user_message) > NameCap THEN "..." ELSE "")


(***************************************************************************)
(* build_context_prompt.  The prompt is its sequence of lines (the parts   *)
(* are joined with newlines).                                              *)
(***************************************************************************)
Upper(sender) ==
  IF sender = "user" THEN "USER" ELSE IF sender = "bot" THEN "BOT" ELSE "SYSTEM"

RenderMsg(msg) == Upper(msg.sender) \o ": " \o msg.message

ProfileSection(chat_context) ==
  IF chat_context.permanent_context # ""
  THEN <<"[USER PROFILE]", chat_context.permanent_context, "">> ELSE <<>>

SummarySection(chat_context) ==
  IF chat_context.conversation_summary # ""
  THEN <<"[CONVERSATION HISTORY SUMMARY]", chat_context.conversation_summary, "">> ELSE <<>>

RecentSection(chat_context) ==
  IF chat_context.recent_messages # <<>>
  THEN <<"[RECENT CONVERSATION]">>
       \o [i \in 1..Len(Tail10(chat_context.recent_messages)) |->
             RenderMsg(Tail10(chat_context.recent_messages)[i])]
       \o <<"">>
  ELSE <<>>

SelectionSection(selected_job_id) ==
  IF selected_job_id # ""
  THEN <<"[CONTEXT: User has selected job with ID: " \o selected_job_id
           \o ". Provide insights about this specific job.]", "">>
  ELSE <<>>

CurrentSection(current_message) == <<"[CURRENT MESSAGE]", "USER: " \o current_message>>

\* Mutant of build_context_prompt: the selection annotation follows the
\* current message.
build_context_prompt_selection_last(chat_context, current_message, selected_job_id) ==
  ProfileSection(chat_context) \o SummarySection(chat_context)
    \o RecentSection(chat_context) \o CurrentSection(current_message)
    \o SelectionSection(selected_job_id)

build_context_prompt(chat_context, current_message, selected_job_id) ==
  ProfileSection(chat_context) \o SummarySection(chat_context)
    \o RecentSection(chat_context) \o SelectionSection(selected_job_id)
    \o CurrentSection(current_message)

\* Line 413: the line appended to the composed prompt when the selected job
\* was found.
SelectedJobLine(card) == <<"", "", "[Selected Job Details: " \o card.job_id \o "]">>

\* The prompt of the first model call (lines 405-413).
ContextPrompt(c, r, details) ==
  build_context_prompt(c.context, r.user_message, r.selected_job_id)
    \o (IF details.kind = "card" THEN SelectedJobLine(details) ELSE <<>>)

(***************************************************************************)
(* execute_function_call.  data is what the job-search collaborator        *)
(* answers: the list of raw jobs, each identified by its job id.           *)
(***************************************************************************)
Get(args, key, default) == IF key \in args.keys THEN args[key] ELSE default

\* Mutant of MinOf: the requested value is passed on as it is.
FirstOf(a, b) == a

MinOf(a, b) == IF a < b THEN a ELSE b

NoResult == [status |-> "", total_jobs_found |-> 0, jobs_summary |-> <<>>,
             message |-> "", job_id |-> ""]

\* Mutant of JobSummaries: one line for every job of the answer.
JobSummariesAll(jobs_data) ==
  [i \in 1..Len(jobs_data) |-> "- " \o jobs_data[i]]

JobSummaries(jobs_data) ==
  [i \in 1..Len(Take(jobs_data, 10)) |-> "- " \o jobs_data[i]]

\* jsearch_client.extract_job_cards_from_response: one card per job, capped
\* at the count of the model-facing summary.
extract_job_cards_from_response(jobs_data) == PyList(Take(jobs_data, 10))

\* The call made to the job-search collaborator.
CollaboratorCall(function_name, function_args) ==
  IF function_name = "search_jobs"
  THEN [ev |-> "search_jobs", via |-> "tool", raised |-> FALSE,
        query |-> Get(function_args, "query", ""),
        num_pages |-> MinOf(Get(function_args, "num_pages", 1), 3),
        job_id |-> "", data |-> <<>>]
  ELSE [ev |-> "get_job_details", via |-> "tool", raised |-> FALSE,
        query |-> "", num_pages |-> 0,
        job_id |-> Get(function_args, "job_id", ""), data |-> <<>>]

CallsCollaborator(function_name) ==
  function_name \in {"search_jobs", "get_job_details"}

execute_function_call(function_name, function_args, jobs_data) ==
  IF function_name = "search_jobs"
  THEN IF jobs_data # <<>>
       THEN [result |-> [NoResult EXCEPT !.status = "success",
                                         !.total_jobs_found = Len(jobs_data),
                                         !.jobs_summary = JobSummaries(jobs_data)],
             cards |-> extract_job_cards_from_response(jobs_data)]
       ELSE [result |-> [NoResult EXCEPT !.status = "no_results",
                                         !.message = "No jobs found matching the search criteria."],
             cards |-> PyList(<<>>)]
  ELSE IF function_name = "get_job_details"
  THEN IF jobs_data # <<>>
       THEN [result |-> [NoResult EXCEPT !.status = "success", !.job_id = jobs_data[1]],
             cards |-> PyCard(jobs_data[1])]
       ELSE [result |-> [NoResult EXCEPT !.status = "error",
                                         !.message = "Job details not found."],
             cards |-> PyNone]
  ELSE [result |-> [NoResult EXCEPT !.status = "error", !.message = "Unknown function"],
        cards |-> PyNone]

(***************************************************************************)
(* summarize_conversation and the compaction of lines 525-540.  The        *)
(* summarizer's answer is [ok, text]: the stripped text of the model       *)
(* reply, or ok = FALSE when generate_content raises.                      *)
(***************************************************************************)
summarize_conversation(messages, answer) ==
  IF messages = <<>> THEN ""
  ELSE IF answer.ok THEN answer.text
  ELSE ""

\* Mutant of Exchange: the bot reply is put before the user message.
ExchangeBotFirst(user_message, text) == <<Msg("bot", text), Msg("user", user_message)>>

\* Lines 513-527: the two entries a turn adds.
Exchange(user_message, text) == <<Msg("user", user_message), Msg("bot", text)>>

\* Mutant of OldMessages: the oldest retained entry is handed over too.
OldMessagesWide(recent_messages) ==
  IF Len(recent_messages) > WindowCap
  THEN SubSeq(recent_messages, 1, Len(recent_messages) - WindowCap + 1)
  ELSE <<>>

\* Line 529.
OldMessages(recent_messages) == DropTail10(recent_messages)

\* Mutant of MessagesToSummarize: the previous summary is not folded in.
MessagesToSummarizeNoPrior(chat_context) == OldMessages(chat_context.recent_messages)

\* Lines 530-535.
MessagesToSummarize(chat_context) ==
  IF chat_context.conversation_summary # ""
  THEN <<Msg("system", "Previous summary: " \o chat_context.conversation_summary)>>
         \o OldMessages(chat_context.recent_messages)
  ELSE OldMessages(chat_context.recent_messages)

\* Mutant of NeedsCompaction: the window is compacted one exchange late.
NeedsCompactionLate(recent_messages) == Len(recent_messages) > WindowCap + 2

NeedsCompaction(recent_messages) == Len(recent_messages) > WindowCap

\* Lines 528-531: the summarizer is called when the extended window exceeds
\* the cap and leaves old messages.
CallsSummarizer(recent_messages) ==
  NeedsCompaction(recent_messages) /\ OldMessages(recent_messages) # <<>>

\* Mutant of Compact: the summary is folded but the window is never trimmed.
CompactNoTrim(chat_context, answer) ==
  [chat_context EXCEPT
     !.conversation_summary = summarize_conversation(MessagesToSummarize(chat_context), answer)]

\* Lines 536-538 applied to the context whose window was already extended.
Compact(chat_context, answer) ==
  [chat_context EXCEPT
     !.conversation_summary = summarize_conversation(MessagesToSummarize(chat_context), answer),
     !.recent_messages = Tail10(chat_context.recent_messages)]


(***************************************************************************)
(* The state after onboarding: the user document with an empty             *)
(* chat_history, no request in flight.                                     *)
(***************************************************************************)
NoReq == [email |-> "", chat_id |-> 0, user_message |-> "", selected_job_id |-> ""]
NoContext == [permanent_context |-> "", conversation_summary |-> "", recent_messages |-> <<>>]
NoChat == [id |-> 0, chat_name |-> "", messages |-> <<>>, context |-> NoContext]
NoResponse == [raised |-> FALSE, keys |-> {}, message |-> "", jobs |-> PyNone,
               selected_job_details |-> PyNone, chat_name |-> ""]

Init ==
  /\ chat_history = <<>>
  /\ nextId = 0
  /\ started = 0
  /\ pc = [p \in Procs |-> "idle"]
  /\ req = [p \in Procs |-> NoReq]
  /\ chat = [p \in Procs |-> NoChat]
  /\ chat_index = [p \in Procs |-> 0]
  /\ response = [p \in Procs |-> <<>>]
  /\ final_response = [p \in Procs |-> <<>>]
  /\ function_result = [p \in Procs |-> NoResult]
  /\ job_cards = [p \in Procs |-> PyNone]
  /\ selected_job_details = [p \in Procs |-> PyNone]
  /\ final_response_text = [p \in Procs |-> ""]
  /\ result = [p \in Procs |-> NoResponse]
  /\ log = [p \in Procs |-> <<>>]
  /\ summarized = <<>>

turnVars == <<pc, req, chat, chat_index, response, final_response, function_result,
              job_cards, selected_job_details, final_response_text, result, log>>

(***************************************************************************)
(* create_new_chat and delete_chat_session.                                *)
(***************************************************************************)
create_permanent_context(answer) ==
  IF answer.ok THEN answer.text ELSE ProfileFallback

NewChat(chat_id, permanent_context) ==
  [id |-> chat_id,
   chat_name |-> NewChatName,
   messages |-> <<Msg("bot", Greeting)>>,
   context |-> [permanent_context |-> permanent_context,
                conversation_summary |-> "",
                recent_messages |-> <<>>]]

CreateNewChat(answer) ==
  /\ nextId' = nextId + 1
  /\ chat_history' = Append(chat_history, NewChat(nextId + 1, create_permanent_context(answer)))
  /\ UNCHANGED <<started, turnVars, summarized>>

RECURSIVE Pull(_, _)
Pull(history, chat_id) ==
  IF history = <<>> THEN <<>>
  ELSE IF Head(history).id = chat_id THEN Pull(Tail(history), chat_id)
  ELSE <<Head(history)>> \o Pull(Tail(history), chat_id)

DeleteChatSession(chat_id) ==
  /\ chat_history' = Pull(chat_history, chat_id)
  /\ UNCHANGED <<nextId, started, turnVars, summarized>>

(***************************************************************************)
(* process_chat_message, one action per collaborator call.                 *)
(***************************************************************************)
\* chat_index is the 1-based position in chat_history; 0 stands for -1.
ChatIndexes(history, chat_id) == {i \in 1..Len(history) : history[i].id = chat_id}
FindChat(history, chat_id) ==
  IF ChatIndexes(history, chat_id) = {} THEN 0 ELSE Min(ChatIndexes(history, chat_id))

NotFoundResponse(message) ==
  [NoResponse EXCEPT !.keys = {"message", "jobs"}, !.message = message]

\* Mutant of ApologyResponse: the except clause answers with the default text.
ApologyAsDefault ==
  [NoResponse EXCEPT !.keys = {"message", "jobs"}, !.message = DefaultText]

ApologyResponse ==
  [NoResponse EXCEPT !.keys = {"message", "jobs", "error"}, !.message = Apology]

RaisedResponse == [NoResponse EXCEPT !.raised = TRUE]

\* Lines 379-405: find_one, the lookup of the chat and the composed prompt.
StartTurn(p, email, chat_id, user_message, selected_job_id) ==
  /\ pc[p] \in {"idle", "done"}
  /\ started' = started + 1
  /\ req' = [req EXCEPT ![p] = [email |-> email, chat_id |-> chat_id,
                                user_message |-> user_message,
                                selected_job_id |-> selected_job_id]]
  /\ response' = [response EXCEPT ![p] = <<>>]
  /\ final_response' = [final_response EXCEPT ![p] = <<>>]
  /\ function_result' = [function_result EXCEPT ![p] = NoResult]
  /\ job_cards' = [job_cards EXCEPT ![p] = PyNone]
  /\ selected_job_details' = [selected_job_details EXCEPT ![p] = PyNone]
  /\ final_response_text' = [final_response_text EXCEPT ![p] = ""]
  /\ log' = [log EXCEPT ![p] =
        IF email = Email /\ FindChat(chat_history, chat_id) # 0
        THEN <<[ev |-> "find_one", raised |-> FALSE,
                chat |-> chat_history[FindChat(chat_history, chat_id)]],
               [ev |-> "build_context_prompt", raised |-> FALSE,
                prompt |-> build_context_prompt(
                             chat_history[FindChat(chat_history, chat_id)].context,
                             user_message, selected_job_id)]>>
        ELSE <<[ev |-> "find_one", raised |-> FALSE, chat |-> NoChat]>>]
  /\ IF email # Email
     THEN /\ result' = [result EXCEPT ![p] = NotFoundResponse(UserNotFound)]
          /\ pc' = [pc EXCEPT ![p] = "done"]
          /\ chat' = [chat EXCEPT ![p] = NoChat]
          /\ chat_index' = [chat_index EXCEPT ![p] = 0]
     ELSE IF FindChat(chat_history, chat_id) = 0
     THEN /\ result' = [result EXCEPT ![p] = NotFoundResponse(ChatNotFound)]
          /\ pc' = [pc EXCEPT ![p] = "done"]
          /\ chat' = [chat EXCEPT ![p] = NoChat]
          /\ chat_index' = [chat_index EXCEPT ![p] = 0]
     ELSE /\ result' = [result EXCEPT ![p] = NoResponse]
          /\ chat' = [chat EXCEPT ![p] = chat_history[FindChat(chat_history, chat_id)]]
          /\ chat_index' = [chat_index EXCEPT ![p] = FindChat(chat_history, chat_id)]
          /\ pc' = [pc EXCEPT ![p] = IF selected_job_id # "" THEN "selected" ELSE "model1"]
  /\ UNCHANGED <<chat_history, nextId, summarized>>

\* Lines 579-589: the except clause.
Fail(p) ==
  /\ result' = [result EXCEPT ![p] = ApologyResponse]
  /\ pc' = [pc EXCEPT ![p] = "done"]

\* Lines 408-413: get_job_details for the selected job, outside the try.
SelectedJob(p, answer) ==
  /\ pc[p] = "selected"
  /\ log' = [log EXCEPT ![p] = Append(@, [ev |-> "get_job_details", via |-> "selected",
                                          raised |-> ~answer.ok,
                                          query |-> "", num_pages |-> 0,
                                          job_id |-> req[p].selected_job_id,
                                          data |-> answer.data])]
  /\ IF ~answer.ok
     THEN /\ result' = [result EXCEPT ![p] = RaisedResponse]
          /\ pc' = [pc EXCEPT ![p] = "done"]
          /\ UNCHANGED selected_job_details
     ELSE /\ selected_job_details' = [selected_job_details EXCEPT ![p] =
                IF answer.data # <<>> THEN PyCard(answer.data[1]) ELSE PyNone]
          /\ pc' = [pc EXCEPT ![p] = "model1"]
          /\ UNCHANGED result
  /\ UNCHANGED <<chat_history, nextId, started, summarized, req, chat, chat_index, response,
                 final_response, function_result, job_cards, final_response_text>>

\* Lines 511-558 up to the summarization call: the window is extended in
\* memory; without compaction the stored messages and the name follow at once.
\* Mutant of WithExchange: the context is rebuilt around the new window.
WithExchangeOnly(c, r, text) ==
  [c EXCEPT !.context = [NoContext EXCEPT
      !.conversation_summary = c.context.conversation_summary,
      !.recent_messages = c.context.recent_messages \o Exchange(r.user_message, text)]]

WithExchange(c, r, text) ==
  [c EXCEPT !.context.recent_messages = @ \o Exchange(r.user_message, text)]

\* Lines 528-540 of a turn that makes no summarization call.
Trimmed(c) ==
  [c EXCEPT !.context.recent_messages =
     IF NeedsCompaction(@) THEN Tail10(@) ELSE @]

\* Mutant of WithMessages: only the bot reply is appended.
WithMessagesBotOnly(c, r, text) ==
  [c EXCEPT !.messages = Append(@, Msg("bot", text)),
            !.chat_name = IF Len(c.messages) + 2 <= 3 THEN ChatName(r.user_message) ELSE @]

\* Lines 543-558.
WithMessages(c, r, text) ==
  [c EXCEPT !.messages = @ \o Exchange(r.user_message, text),
            !.chat_name = IF Len(c.messages) + 2 <= 3 THEN ChatName(r.user_message) ELSE @]

\* Lines 508-558 for a final text that may still be empty.
Finalize(p, text, first_parts) ==
  IF text = "" /\ TextRaises(first_parts)
  THEN /\ Fail(p)
       /\ UNCHANGED <<chat, final_response_text>>
  ELSE /\ final_response_text' = [final_response_text EXCEPT ![p] =
             IF text = "" THEN ResponseText(first_parts) ELSE text]
       /\ IF CallsSummarizer(WithExchange(chat[p], req[p], final_response_text'[p]).context.recent_messages)
          THEN /\ chat' = [chat EXCEPT ![p] = WithExchange(@, req[p], final_response_text'[p])]
               /\ pc' = [pc EXCEPT ![p] = "summarize"]
          ELSE /\ chat' = [chat EXCEPT ![p] =
                     WithMessages(Trimmed(WithExchange(@, req[p], final_response_text'[p])),
                                  req[p], final_response_text'[p])]
               /\ pc' = [pc EXCEPT ![p] = "write"]
       /\ UNCHANGED result

\* Lines 426-448 and 504-509: the first model call and the scan of its parts.
Model1(p, answer) ==
  /\ pc[p] = "model1"
  /\ log' = [log EXCEPT ![p] = Append(@, [ev |-> "send_message", raised |-> ~answer.ok,
                 prompt |-> ContextPrompt(chat[p], req[p], selected_job_details[p])])]
  /\ IF ~answer.ok
     THEN /\ Fail(p)
          /\ UNCHANGED <<response, chat, final_response_text>>
     ELSE /\ response' = [response EXCEPT ![p] = answer.parts]
          /\ IF FunctionCallPart(answer.parts) # NoCall
             THEN /\ pc' = [pc EXCEPT ![p] = "tool"]
                  /\ UNCHANGED <<chat, final_response_text, result>>
             ELSE Finalize(p, TextResponse(answer.parts), answer.parts)
  /\ UNCHANGED <<chat_history, nextId, started, summarized, req, chat_index, final_response,
                 function_result, job_cards, selected_job_details>>

\* Mutant of Tool: the turn goes to its write with the tool result, without
\* the second model call.
ToolThenWrite(p, answer) ==
  /\ pc[p] = "tool"
  /\ LET fc == FunctionCallPart(response[p])
         r == execute_function_call(fc.name, fc.args, answer.data)
     IN /\ log' = [log EXCEPT ![p] =
               Append(@, [ev |-> "execute_function_call", raised |-> FALSE,
                          name |-> fc.name])]
        /\ answer.ok
        /\ function_result' = [function_result EXCEPT ![p] = r.result]
        /\ pc' = [pc EXCEPT ![p] = "write"]
  /\ UNCHANGED <<chat_history, nextId, started, summarized, req, chat, chat_index, response,
                 final_response, final_response_text, job_cards,
                 selected_job_details, result>>

\* Lines 450-476: execute_function_call.
Tool(p, answer) ==
  /\ pc[p] = "tool"
  /\ LET fc == FunctionCallPart(response[p])
         r == execute_function_call(fc.name, fc.args, answer.data)
     IN /\ log' = [log EXCEPT ![p] =
               IF CallsCollaborator(fc.name)
               THEN @ \o <<[ev |-> "execute_function_call", raised |-> FALSE, name |-> fc.name],
                           [CollaboratorCall(fc.name, fc.args) EXCEPT
                              !.raised = ~answer.ok, !.data = answer.data]>>
               ELSE Append(@, [ev |-> "execute_function_call", raised |-> FALSE,
                               name |-> fc.name])]
        /\ CallsCollaborator(fc.name) \/ (answer.ok /\ answer.data = <<>>)
        /\ IF ~answer.ok
           THEN /\ Fail(p)
                /\ UNCHANGED <<function_result, job_cards, selected_job_details>>
           ELSE /\ function_result' = [function_result EXCEPT ![p] = r.result]
                /\ job_cards' = [job_cards EXCEPT ![p] =
                      IF fc.name = "search_jobs" /\ Truthy(r.cards) THEN r.cards ELSE @]
                /\ selected_job_details' = [selected_job_details EXCEPT ![p] =
                      IF fc.name # "search_jobs" /\ fc.name = "get_job_details" /\ Truthy(r.cards)
                      THEN r.cards ELSE @]
                /\ pc' = [pc EXCEPT ![p] = "model2"]
                /\ UNCHANGED result
  /\ UNCHANGED <<chat_history, nextId, started, summarized, req, chat, chat_index, response,
                 final_response, final_response_text>>

\* Mutant of Model2: a reply that requests a tool again is honoured.
Model2Again(p, answer) ==
  /\ pc[p] = "model2"
  /\ log' = [log EXCEPT ![p] = Append(@, [ev |-> "send_message", raised |-> ~answer.ok,
                 function_response |-> [name |-> FunctionCallPart(response[p]).name,
                                        response |-> function_result[p]]])]
  /\ IF ~answer.ok
     THEN /\ Fail(p)
          /\ UNCHANGED <<final_response, chat, final_response_text>>
     ELSE /\ final_response' = [final_response EXCEPT ![p] = answer.parts]
          /\ IF HasCall(answer.parts)
             THEN /\ pc' = [pc EXCEPT ![p] = "tool"]
                  /\ UNCHANGED <<chat, final_response_text, result>>
             ELSE Finalize(p, FinalTextAfterTool(answer.parts), response[p])
  /\ UNCHANGED <<chat_history, nextId, started, summarized, req, chat_index, response,
                 function_result, job_cards, selected_job_details>>

\* Lines 478-509: the tool result goes back to the model; the final text.
Model2(p, answer) ==
  /\ pc[p] = "model2"
  /\ log' = [log EXCEPT ![p] = Append(@, [ev |-> "send_message", raised |-> ~answer.ok,
                 function_response |-> [name |-> FunctionCallPart(response[p]).name,
                                        response |-> function_result[p]]])]
  /\ IF ~answer.ok
     THEN /\ Fail(p)
          /\ UNCHANGED <<final_response, chat, final_response_text>>
     ELSE /\ final_response' = [final_response EXCEPT ![p] = answer.parts]
          /\ Finalize(p, FinalTextAfterTool(answer.parts), response[p])
  /\ UNCHANGED <<chat_history, nextId, started, summarized, req, chat_index, response,
                 function_result, job_cards, selected_job_details>>

\* Mutant of Summarize: a raising summarization call fails the turn.
SummarizeFailing(p, answer) ==
  /\ pc[p] = "summarize"
  /\ log' = [log EXCEPT ![p] = Append(@, [ev |-> "summarize",
                 raised |-> ~answer.ok,
                 messages |-> MessagesToSummarize(chat[p].context),
                 answer |-> answer.text])]
  /\ summarized' = summarized \o
        [i \in 1..Len(MessagesToSummarize(chat[p].context)) |->
           [id |-> chat[p].id, turn |-> req[p].user_message,
            entry |-> MessagesToSummarize(chat[p].context)[i]]]
  /\ IF ~answer.ok
     THEN Fail(p) /\ UNCHANGED chat
     ELSE /\ chat' = [chat EXCEPT ![p] =
                WithMessages([@ EXCEPT !.context = Compact(@, answer)], req[p],
                             final_response_text[p])]
          /\ pc' = [pc EXCEPT ![p] = "write"]
          /\ UNCHANGED result
  /\ UNCHANGED <<chat_history, nextId, started, req, chat_index, response, final_response,
                 function_result, job_cards, selected_job_details, final_response_text>>

\* Lines 528-558: the summarization call of a compacting turn.
Summarize(p, answer) ==
  /\ pc[p] = "summarize"
  /\ log' = [log EXCEPT ![p] = Append(@, [ev |-> "summarize",
                 raised |-> ~answer.ok,
                 messages |-> MessagesToSummarize(chat[p].context),
                 answer |-> answer.text])]
  /\ chat' = [chat EXCEPT ![p] =
        WithMessages([@ EXCEPT !.context = Compact(@, answer)], req[p], final_response_text[p])]
  /\ summarized' = summarized \o
        [i \in 1..Len(MessagesToSummarize(chat[p].context)) |->
           [id |-> chat[p].id, turn |-> req[p].user_message,
            entry |-> MessagesToSummarize(chat[p].context)[i]]]
  /\ pc' = [pc EXCEPT ![p] = "write"]
  /\ UNCHANGED <<chat_history, nextId, started, req, chat_index, response, final_response,
                 function_result, job_cards, selected_job_details, final_response_text,
                 result>>

\* Lines 560-577: update_one on the positional path and the return.
\* Mutant of Matches: the filter tests the position only.
MatchesIndexOnly(history, index, c) == index >= 1 /\ index <= Len(history)

Matches(history, index, c) == index >= 1 /\ index <= Len(history) /\ history[index].id = c.id

\* Mutant of UpdateOne: the turn's exchange is appended to the stored messages.
UpdateOneAppending(history, index, c) ==
  IF Matches(history, index, c)
  THEN [history EXCEPT ![index].messages = @ \o SubSeq(c.messages, Len(c.messages) - 1,
                                                        Len(c.messages)),
                       ![index].context = c.context,
                       ![index].chat_name = c.chat_name]
  ELSE history

UpdateOne(history, index, c) ==
  IF Matches(history, index, c)
  THEN [history EXCEPT ![index].messages = c.messages,
                       ![index].context = c.context,
                       ![index].chat_name = c.chat_name]
  ELSE history

OkResponse(p) ==
  [NoResponse EXCEPT !.keys = {"message", "jobs", "selected_job_details", "chat_name"},
                     !.message = final_response_text[p],
                     !.jobs = job_cards[p],
                     !.selected_job_details = selected_job_details[p],
                     !.chat_name = chat[p].chat_name]

Write(p) ==
  /\ pc[p] = "write"
  /\ chat_history' = UpdateOne(chat_history, chat_index[p], chat[p])
  /\ log' = [log EXCEPT ![p] = Append(@, [ev |-> "update_one", raised |-> FALSE,
                 exists |-> FindChat(chat_history, chat[p].id) # 0,
                 matched |-> Matches(chat_history, chat_index[p], chat[p])])]
  /\ result' = [result EXCEPT ![p] = OkResponse(p)]
  /\ pc' = [pc EXCEPT ![p] = "done"]
  /\ UNCHANGED <<nextId, started, summarized, req, chat, chat_index, response, final_response,
                 function_result, job_cards, selected_job_details, final_response_text>>
\* Lines 561 and 579-589: update_one raises inside the try; nothing is
\* stored and the except clause answers.
WriteRaises(p) ==
  /\ pc[p] = "write"
  /\ log' = [log EXCEPT ![p] = Append(@, [ev |-> "update_one", raised |-> TRUE,
                 exists |-> FindChat(chat_history, chat[p].id) # 0,
                 matched |-> FALSE])]
  /\ Fail(p)
  /\ UNCHANGED <<chat_history, nextId, started, summarized, req, chat, chat_index,
                 response, final_response, function_result, job_cards,
                 selected_job_details, final_response_text>>

\* main.py, send_message_endpoint: what the caller of /api/sendMessage gets
\* for a return value of process_chat_message (an exception is a 500).
send_message_endpoint(r) ==
  IF r.raised
  THEN [status |-> 500, message |-> "", jobs |-> PyNone, selected_job_details |-> PyNone]
  ELSE IF "error" \in r.keys /\ StartsWith(r.message, "User not found")
  THEN [status |-> 404, message |-> r.message, jobs |-> PyNone,
        selected_job_details |-> PyNone]
  ELSE [status |-> 200, message |-> r.message, jobs |-> r.jobs,
        selected_job_details |-> r.selected_job_details]

(***************************************************************************)
(* The environment: what the collaborators answer and what callers send.   *)
(***************************************************************************)
Raises == [ok |-> FALSE, parts |-> <<>>, data |-> <<>>, text |-> ""]
Parts(parts) == [Raises EXCEPT !.ok = TRUE, !.parts = parts]
Data(data) == [Raises EXCEPT !.ok = TRUE, !.data = data]
Text(text) == [Raises EXCEPT !.ok = TRUE, !.text = text]

Replies ==
  { <<>>,
    <<TextPart("a")>>,
    <<TextPart("")>>,
    <<TextPart("a"), TextPart("b")>>,
    <<SearchCall>>,
    <<TextPart("a"), SearchCall>>,
    <<SearchCall, DetailsCall>>,
    <<TextPart("a"), TextPart("b"), DetailsCall>> }

ModelAnswers == {Raises} \cup {Parts(r) : r \in Replies}
JobAnswers == {Raises, Data(<<>>), Data(<<"j1", "j2">>)}
SummaryAnswers == {Raises, Text("S1"), Text("S2")}
ProfileAnswers == {Raises, Text("P")}

\* One request at a time on one session, every kind of model reply.
Sequential == {"t1"}

Next ==
  \/ \E answer \in ProfileAnswers : nextId < 1 /\ CreateNewChat(answer)
  \/ \E p \in Sequential, email \in {Email, UnknownEmail}, chat_id \in 1..2,
        user_message \in UserTexts, selected_job_id \in JobIds :
       started < MaxTurns /\ StartTurn(p, email, chat_id, user_message, selected_job_id)
  \/ \E p \in Sequential, answer \in JobAnswers : SelectedJob(p, answer)
  \/ \E p \in Sequential, answer \in ModelAnswers : Model1(p, answer)
  \/ \E p \in Sequential, answer \in JobAnswers : Tool(p, answer)
  \/ \E p \in Sequential, answer \in ModelAnswers : Model2(p, answer)
  \/ \E p \in Sequential : Write(p)

Spec == Init /\ [][Next]_vars

\* The long run: two handlers on one session, plain text replies or a
\* failing model call, every turn's text distinct.
TurnText(n) == "m" \o ToString(n)
LongAnswers == {Raises, Parts(<<TextPart("a")>>)}

NextLong ==
  \/ nextId < 1 /\ CreateNewChat(Text("P"))
  \/ \E p \in Procs :
       started < MaxLongTurns /\ StartTurn(p, Email, 1, TurnText(started + 1), "")
  \/ \E p \in Procs, answer \in LongAnswers : Model1(p, answer)
  \/ \E p \in Procs, answer \in SummaryAnswers : Summarize(p, answer)
  \/ \E p \in Procs : Write(p)

SpecLong == Init /\ [][NextLong]_vars

\* What the profile summarization answers: it raises, or its stripped text
\* is empty, or it is a text.
PromptProfiles == {Raises, Text(""), Text("P")}

\* Sessions created and deleted while turns are in flight.
NextRace ==
  \/ \E answer \in PromptProfiles : nextId < MaxChats /\ CreateNewChat(answer)
  \/ \E chat_id \in 1..MaxChats : DeleteChatSession(chat_id)
  \/ \E p \in Procs, chat_id \in 1..MaxChats :
       started < MaxTurns /\ StartTurn(p, Email, chat_id, TurnText(started + 1), "")
  \/ \E p \in Procs : Model1(p, Parts(<<TextPart("a")>>))
  \/ \E p \in Procs : Write(p)

SpecRace == Init /\ [][NextRace]_vars

\* The prompts of a long conversation: one handler, sessions with and
\* without a profile text, turns with and without a selected job.
PromptSummaries == {Raises, Text("S1")}

NextPrompt ==
  \/ \E answer \in PromptProfiles : nextId < 1 /\ CreateNewChat(answer)
  \/ \E p \in Sequential, selected_job_id \in JobIds :
       started < MaxLongTurns
         /\ StartTurn(p, Email, 1, TurnText(started + 1), selected_job_id)
  \/ \E p \in Sequential, answer \in JobAnswers : SelectedJob(p, answer)
  \/ \E p \in Sequential : Model1(p, Parts(<<TextPart("a")>>))
  \/ \E p \in Sequential, answer \in PromptSummaries : Summarize(p, answer)
  \/ \E p \in Sequential : Write(p)

SpecPrompt == Init /\ [][NextPrompt]_vars

\* Tool requests: one handler, first replies that request a tool with every
\* shape of arguments, job-search answers of every size.
Jobs(n) == [i \in 1..n |-> "j" \o ToString(i)]
PageCounts == {0, 2, 3, 4}
ToolReplies ==
  { <<SearchCall>>,
    <<CallPart("search_jobs", Args({"num_pages"}, "", 2, ""))>>,
    <<DetailsCall>>,
    <<CallPart("get_job_details", NoArgs)>>,
    <<CallPart("apply_to_job", NoArgs)>> }
  \cup { <<CallPart("search_jobs", Args({"query", "num_pages"}, "q", n, ""))>> :
            n \in PageCounts }
ToolJobAnswers == {Raises, Data(<<>>), Data(Jobs(2)), Data(Jobs(MaxJobs))}
ToolAnswers == {Raises, Parts(<<TextPart("a")>>)}

NextTool ==
  \/ nextId < 1 /\ CreateNewChat(Text("P"))
  \/ \E p \in Sequential :
       started < MaxTurns /\ StartTurn(p, Email, 1, TurnText(started + 1), "")
  \/ \E p \in Sequential, r \in ToolReplies : Model1(p, Parts(r))
  \/ \E p \in Sequential, answer \in ToolJobAnswers : Tool(p, answer)
  \/ \E p \in Sequential, answer \in ToolAnswers : Model2(p, answer)
  \/ \E p \in Sequential : Write(p)

SpecTool == Init /\ [][NextTool]_vars

\* Two turns with the same request on the same session, for which the job
\* search answers the selected job with different cards.
PairJobAnswers == {Data(<<"j1">>), Data(<<"j2">>)}
PairReplies == {<<TextPart("a")>>, <<SearchCall>>}
PairToolAnswers == {Data(<<>>), Data(<<"j1", "j2">>)}

NextPair ==
  \/ nextId < 1 /\ CreateNewChat(Text("P"))
  \/ \E p \in Procs : started < MaxTurns /\ StartTurn(p, Email, 1, "u1", "j1")
  \/ \E p \in Procs, answer \in PairJobAnswers : SelectedJob(p, answer)
  \/ \E p \in Procs, r \in PairReplies : Model1(p, Parts(r))
  \/ \E p \in Procs, answer \in PairToolAnswers : Tool(p, answer)
  \/ \E p \in Procs : Model2(p, Parts(<<TextPart("a")>>))
  \/ \E p \in Procs : Write(p)

SpecPair == Init /\ [][NextPair]_vars

\* A long conversation of one handler in which the model may request a tool,
\* also in its reply to the tool result.
OrderReplies == {<<TextPart("a")>>, <<SearchCall>>}
OrderToolAnswers == {Raises, Data(<<"j1", "j2">>)}
OrderAnswers == {Raises, Parts(<<TextPart("a")>>), Parts(<<SearchCall>>)}

NextOrder ==
  \/ nextId < 1 /\ CreateNewChat(Text("P"))
  \/ \E p \in Sequential, selected_job_id \in JobIds :
       started < MaxLongTurns
         /\ StartTurn(p, Email, 1, TurnText(started + 1), selected_job_id)
  \/ \E p \in Sequential, answer \in JobAnswers : SelectedJob(p, answer)
  \/ \E p \in Sequential, r \in OrderReplies : Model1(p, Parts(r))
  \/ \E p \in Sequential, answer \in OrderToolAnswers : Tool(p, answer)
  \/ \E p \in Sequential, answer \in OrderAnswers : Model2(p, answer)
  \/ \E p \in Sequential, answer \in PromptSummaries : Summarize(p, answer)
  \/ \E p \in Sequential : Write(p)

SpecOrder == Init /\ [][NextOrder]_vars

\* A long conversation of one handler whose database write may fail.
NextStore ==
  \/ nextId < 1 /\ CreateNewChat(Text("P"))
  \/ \E p \in Sequential :
       started < MaxLongTurns /\ StartTurn(p, Email, 1, TurnText(started + 1), "")
  \/ \E p \in Sequential, answer \in LongAnswers : Model1(p, answer)
  \/ \E p \in Sequential, answer \in SummaryAnswers : Summarize(p, answer)
  \/ \E p \in Sequential : Write(p)
  \/ \E p \in Sequential : WriteRaises(p)

SpecStore == Init /\ [][NextStore]_vars

(***************************************************************************)
(* What the properties speak of.                                           *)
(***************************************************************************)
Events(p, ev) == {i \in 1..Len(log[p]) : log[p][i].ev = ev}
Event(p, ev) == log[p][Min(Events(p, ev))]
ReturnedReply(p) ==
  pc[p] = "done" /\ result[p].keys = {"message", "jobs", "selected_job_details", "chat_name"}
ReturnedApology(p) == pc[p] = "done" /\ "error" \in result[p].keys
PreTurn(p) == log[p][1].chat             \* the session as find_one returned it
Stored(chat_id) == chat_history[FindChat(chat_history, chat_id)]
IsStored(chat_id) == FindChat(chat_history, chat_id) # 0

\* A model call or the tool execution of the turn raised.
RaisedInTry(p) ==
  \E i \in 1..Len(log[p]) :
    /\ log[p][i].raised
    /\ \/ log[p][i].ev = "send_message"
       \/ log[p][i].ev \in {"search_jobs", "get_job_details"} /\ log[p][i].via = "tool"

\* C1: the stored recent_messages window of every session holds at most 10
\* entries, after every turn of every run that starts from create_new_chat.
C1_WindowAtMostTen ==
  \A i \in 1..Len(chat_history) :
    Len(chat_history[i].context.recent_messages) <= WindowCap

C1_Witness ==
  \E p \in Procs :
    /\ ReturnedReply(p)
    /\ Events(p, "summarize") # {}
    /\ IsStored(req[p].chat_id)
    /\ Len(Stored(req[p].chat_id).context.recent_messages) = WindowCap
    /\ Len(Stored(req[p].chat_id).messages) > WindowCap + 1

\* C2: when the first model call, the tool execution or the second model
\* call of a turn raises, the turn issues no update_one, the stored session
\* is what the turn read, and the caller gets the apology message.
C2_FailedTurnWritesNothing ==
  \A p \in Procs :
    RaisedInTry(p) =>
      /\ pc[p] = "done"
      /\ result[p].message = Apology
      /\ "error" \in result[p].keys
      /\ Events(p, "update_one") = {}
      /\ IsStored(req[p].chat_id)
      /\ Stored(req[p].chat_id) = PreTurn(p)

C2_Witness ==
  \E p \in Procs :
    /\ RaisedInTry(p)
    /\ Events(p, "execute_function_call") # {}
    /\ Cardinality(Events(p, "send_message")) = 2
    /\ Len(PreTurn(p).messages) > 1

\* C3: a turn executes at most one model-requested tool, also when the reply
\* to the tool result requests a tool again.
C3_OneToolPerTurn ==
  \A p \in Procs :
    /\ Cardinality(Events(p, "execute_function_call")) <= 1
    /\ HasCall(final_response[p]) =>
         /\ Cardinality(Events(p, "execute_function_call")) = 1
         /\ pc[p] \in {"summarize", "write", "done"}

C3_Witness ==
  \E p \in Procs :
    /\ ReturnedReply(p)
    /\ HasCall(final_response[p])
    /\ Cardinality(Events(p, "execute_function_call")) = 1

\* C4: when the summarization call of a compacting turn raises, the turn's
\* conversation_summary is the one it read, not the empty string.
\* C6: a turn persists all of its triple or nothing: a stored session only
\* ever changes to the whole triple (messages, context, chat name) of a turn
\* that is writing, and a turn that returns a reply while its session is
\* stored has stored its triple.
C6_Step ==
  /\ \A id \in 1..nextId :
       (IsStored(id) /\ FindChat(chat_history', id) # 0
          /\ chat_history'[FindChat(chat_history', id)] # Stored(id)) =>
         \E p \in Procs :
           /\ pc[p] = "write" /\ pc'[p] = "done" /\ chat[p].id = id
           /\ chat_history'[FindChat(chat_history', id)] = chat[p]
  /\ \A p \in Procs :
       (pc[p] = "write" /\ pc'[p] = "done" /\ IsStored(chat[p].id)) =>
         /\ FindChat(chat_history', chat[p].id) # 0
         /\ chat_history'[FindChat(chat_history', chat[p].id)] = chat[p]

C6_TurnPersistsWhole == [][C6_Step]_vars

\* C7: the tool a turn executes is the first tool request, in part order, of
\* the first model reply.
C7_FirstRequestExecuted ==
  \A p \in Procs :
    Events(p, "execute_function_call") # {} =>
      Event(p, "execute_function_call").name
        = response[p][Min(CallIndexes(response[p]))].function_call.name

\* C8: a turn whose first model reply holds no tool request returns, and
\* stores as its bot message, the reply's text unchanged.
C8_TextReplyVerbatim ==
  \A p \in Procs :
    (ReturnedReply(p) /\ ~HasCall(response[p])) =>
      /\ result[p].message = ResponseText(response[p])
      /\ Last(chat[p].messages) = Msg("bot", ResponseText(response[p]))
      /\ Last(chat[p].context.recent_messages) = Msg("bot", ResponseText(response[p]))
      /\ Event(p, "update_one").matched
      /\ Last(Stored(req[p].chat_id).messages) = Msg("bot", ResponseText(response[p]))

C8_Witness ==
  \E p \in Procs :
    /\ ReturnedReply(p) /\ ~HasCall(response[p])
    /\ Len(response[p]) = 2
    /\ result[p].message = "ab"

\* C9: when the reply to the tool result requests a tool again, the final
\* text is the text that comes with the request, or the fallback string when
\* there is none, and the turn goes on to its write and returns a reply.
\* The text that comes with the request: all text parts of the reply (the
\* claim as stated), or the first non-empty one (the claim as amended).
RECURSIVE FirstNonEmptyText(_)
FirstNonEmptyText(parts) ==
  IF parts = <<>> THEN ""
  ELSE IF Head(parts).text # "" THEN Head(parts).text
  ELSE FirstNonEmptyText(Tail(parts))

C9_After(p, accompanying) ==
  HasCall(final_response[p]) =>
    /\ final_response_text[p] = (IF accompanying # "" THEN accompanying ELSE Fallback)
    /\ pc[p] \in {"summarize", "write", "done"}
    /\ pc[p] = "done" =>
         /\ ReturnedReply(p)
         /\ result[p].message = final_response_text[p]
         /\ Event(p, "update_one").matched
         /\ Last(Stored(req[p].chat_id).messages) = Msg("bot", final_response_text[p])

C9_WitnessFallback ==
  \E p \in Procs :
    /\ ReturnedReply(p) /\ HasCall(final_response[p])
    /\ result[p].message = Fallback

\* C10: a turn calls the summarizer exactly when the window it read, plus
\* its own exchange, is longer than 10; then, if the call succeeds, the
\* turn's window is the last 10 entries of that extended window in their
\* order and its summary is the summarizer's answer; otherwise the window is
\* the extended window and the summary is the one it read.
Extended(p) ==
  PreTurn(p).context.recent_messages
    \o <<Msg("user", req[p].user_message), Msg("bot", final_response_text[p])>>

C10_Compaction ==
  \A p \in Procs :
    (pc[p] = "write" \/ ReturnedReply(p)) =>
      /\ Events(p, "summarize") # {} <=> Len(Extended(p)) > 10
      /\ Cardinality(Events(p, "summarize")) <= 1
      /\ (Events(p, "summarize") # {} /\ ~Event(p, "summarize").raised) =>
           /\ chat[p].context.recent_messages
                = [i \in 1..10 |-> Extended(p)[Len(Extended(p)) - 10 + i]]
           /\ chat[p].context.conversation_summary = Event(p, "summarize").answer
      /\ Events(p, "summarize") = {} =>
           /\ chat[p].context.recent_messages = Extended(p)
           /\ chat[p].context.conversation_summary
                = PreTurn(p).context.conversation_summary

C10_Witness ==
  \E p \in Procs :
    /\ ReturnedReply(p)
    /\ Events(p, "summarize") # {} /\ ~Event(p, "summarize").raised
    /\ PreTurn(p).context.conversation_summary = "S1"
    /\ chat[p].context.conversation_summary = "S2"
    /\ Len(Extended(p)) = 12

\* C4: when the summarization call of a compacting turn raises, the turn's
\* conversation_summary is the one it read, not the empty string.
C4_SummaryKeptOnFailure ==
  \A p \in Procs :
    (pc[p] \in {"write", "done"} /\ Events(p, "summarize") # {}
       /\ Event(p, "summarize").raised) =>
      chat[p].context.conversation_summary = PreTurn(p).context.conversation_summary

\* C5: when two turns on one session both read the same stored messages and
\* both return a reply, the session keeps the exchange of one of them only
\* (the later write replaces the earlier): the other turn's user and bot
\* messages are not in the stored session.
HasUserMessage(messages, text) ==
  \E i \in 1..Len(messages) : messages[i] = Msg("user", text)

ReadTheSame(p, q) ==
  /\ p # q
  /\ ReturnedReply(p) /\ ReturnedReply(q)
  /\ req[p].chat_id = req[q].chat_id
  /\ PreTurn(p).messages = PreTurn(q).messages

C5_LaterWriteOverwrites ==
  \A p, q \in Procs :
    (ReadTheSame(p, q) /\ IsStored(req[p].chat_id)) =>
      /\ Stored(req[p].chat_id).messages \in {chat[p].messages, chat[q].messages}
      /\ Len(Stored(req[p].chat_id).messages) = Len(PreTurn(p).messages) + 2
      /\ ~ (HasUserMessage(Stored(req[p].chat_id).messages, req[p].user_message)
            /\ HasUserMessage(Stored(req[p].chat_id).messages, req[q].user_message))

C5_Witness ==
  \E p, q \in Procs :
    /\ ReadTheSame(p, q)
    /\ result[p].message # Apology
    /\ req[p].user_message # req[q].user_message
    /\ IsStored(req[p].chat_id)
    /\ ~HasUserMessage(Stored(req[p].chat_id).messages, req[p].user_message)
    /\ HasUserMessage(Stored(req[p].chat_id).messages, req[q].user_message)
    /\ Stored(req[p].chat_id).messages = chat[q].messages
    /\ Len(Stored(req[p].chat_id).messages) = Len(PreTurn(p).messages) + 2

\* C11: the input of a turn's summarization call is the overflow of the
\* extended window (all but its last 10 entries) in order, preceded by one
\* system entry "Previous summary: <summary>" exactly when the summary the
\* turn read is not empty.
Overflow(p) == SubSeq(Extended(p), 1, Len(Extended(p)) - 10)

C11_SummarizerInput ==
  \A p \in Procs :
    Events(p, "summarize") # {} =>
      Event(p, "summarize").messages
        = (IF PreTurn(p).context.conversation_summary # ""
           THEN <<[sender |-> "system",
                   message |-> "Previous summary: "
                                 \o PreTurn(p).context.conversation_summary]>>
           ELSE <<>>) \o Overflow(p)

C11_Witness ==
  \E p \in Procs :
    /\ Events(p, "summarize") # {}
    /\ PreTurn(p).context.conversation_summary = "S1"
    /\ Len(Event(p, "summarize").messages) = 3
    /\ Event(p, "summarize").messages[1].sender = "system"
    /\ Event(p, "summarize").messages[2].sender = "user"

\* C12: the permanent_context of a stored session never changes: every step
\* (a write of a successful or compacting turn, the return of a failed one,
\* steps of interleaved turns) leaves it as create_new_chat wrote it.
C12_Step ==
  \A id \in 1..nextId :
    (IsStored(id) /\ FindChat(chat_history', id) # 0) =>
      chat_history'[FindChat(chat_history', id)].context.permanent_context
        = Stored(id).context.permanent_context

C12_PermanentContextFixed == [][C12_Step]_vars

C12_Witness ==
  \E p, q \in Procs :
    /\ p # q
    /\ ReturnedReply(p) /\ Events(p, "summarize") # {} /\ Event(p, "update_one").matched
    /\ ReturnedApology(q)
    /\ Stored(req[p].chat_id).context.permanent_context = "P"
    /\ Stored(req[p].chat_id).context.conversation_summary = "S1"

\* C13: the composed prompt holds its sections in the order profile,
\* summary, recent window, selection annotation, current message; a section
\* is there, header included, exactly when its source is not empty (the
\* selection annotation: when a selected id was given); the current-message
\* section is always there and is last; the recent-window section has one
\* line 'ROLE: text' for every message of the window, oldest first; and the
\* prompt holds nothing else.
Lines(L, h) == {i \in 1..Len(L) : L[i] = h}
Once(L, h) == Cardinality(Lines(L, h)) = 1
At(L, h) == Min(Lines(L, h))
Role(sender) ==
  IF sender = "user" THEN "USER: " ELSE IF sender = "bot" THEN "BOT: " ELSE "SYSTEM: "
SelectionHeader(id) ==
  "[CONTEXT: User has selected job with ID: " \o id
    \o ". Provide insights about this specific job.]"

C13_Sections(L, c, text, id) ==
  LET w == c.recent_messages
      hs == <<"[USER PROFILE]", "[CONVERSATION HISTORY SUMMARY]",
              "[RECENT CONVERSATION]", SelectionHeader(id), "[CURRENT MESSAGE]">>
  IN /\ IF c.permanent_context # ""
        THEN /\ Once(L, hs[1])
             /\ L[At(L, hs[1]) + 1] = c.permanent_context
             /\ L[At(L, hs[1]) + 2] = ""
        ELSE Lines(L, hs[1]) = {}
     /\ IF c.conversation_summary # ""
        THEN /\ Once(L, hs[2])
             /\ L[At(L, hs[2]) + 1] = c.conversation_summary
             /\ L[At(L, hs[2]) + 2] = ""
        ELSE Lines(L, hs[2]) = {}
     /\ IF w # <<>>
        THEN /\ Once(L, hs[3])
             /\ \A i \in 1..Len(w) :
                  L[At(L, hs[3]) + i] = Role(w[i].sender) \o w[i].message
             /\ L[At(L, hs[3]) + Len(w) + 1] = ""
        ELSE Lines(L, hs[3]) = {}
     /\ IF id # ""
        THEN Once(L, hs[4]) /\ L[At(L, hs[4]) + 1] = ""
        ELSE \A i \in 1..Len(L) : ~StartsWith(L[i], "[CONTEXT:")
     /\ Once(L, hs[5])
     /\ At(L, hs[5]) = Len(L) - 1
     /\ L[Len(L)] = "USER: " \o text
     /\ \A a, b \in 1..5 :
          (a < b /\ Lines(L, hs[a]) # {} /\ Lines(L, hs[b]) # {}) =>
            At(L, hs[a]) < At(L, hs[b])
     /\ Len(L) = (IF c.permanent_context # "" THEN 3 ELSE 0)
                  + (IF c.conversation_summary # "" THEN 3 ELSE 0)
                  + (IF w # <<>> THEN Len(w) + 2 ELSE 0)
                  + (IF id # "" THEN 2 ELSE 0) + 2

C13_PromptSections ==
  \A p \in Procs :
    Events(p, "build_context_prompt") # {} =>
      C13_Sections(Event(p, "build_context_prompt").prompt, PreTurn(p).context,
                   req[p].user_message, req[p].selected_job_id)

C13_Witness ==
  \E p \in Procs :
    /\ Events(p, "build_context_prompt") # {}
    /\ Events(p, "send_message") # {}
    /\ PreTurn(p).context.permanent_context = "P"
    /\ PreTurn(p).context.conversation_summary = "S1"
    /\ Len(PreTurn(p).context.recent_messages) = 10
    /\ req[p].selected_job_id = "j1"
    /\ Len(Event(p, "build_context_prompt").prompt) = 22

C13_WitnessBare ==
  \E p \in Procs :
    /\ Events(p, "build_context_prompt") # {}
    /\ Len(Event(p, "build_context_prompt").prompt) = 2

\* C14: the prompt of the first model call of a turn is the output of
\* build_context_prompt, so its last section is the current message, also
\* when the turn carries a selected job id.
C14_PromptIsComposed ==
  \A p \in Procs :
    Events(p, "send_message") # {} =>
      LET L == Event(p, "send_message").prompt
      IN /\ L = Event(p, "build_context_prompt").prompt
         /\ L[Len(L) - 1] = "[CURRENT MESSAGE]"
         /\ L[Len(L)] = "USER: " \o req[p].user_message

\* C15: a turn whose user or session is not found makes no model call, no
\* tool or job-search call and no write, and what the caller of the endpoint
\* gets differs from what it gets for a successful reply with the same text
\* and from what it gets for the apology.
Unresolved(p) == pc[p] = "done" /\ log[p] # <<>> /\ PreTurn(p) = NoChat

SuccessfulReplyWith(text) ==
  send_message_endpoint(
    [NoResponse EXCEPT !.keys = {"message", "jobs", "selected_job_details", "chat_name"},
                       !.message = text, !.chat_name = NewChatName])

C15_NotFoundDistinct ==
  \A p \in Procs :
    Unresolved(p) =>
      /\ Len(log[p]) = 1
      /\ send_message_endpoint(result[p]) # SuccessfulReplyWith(result[p].message)
      /\ send_message_endpoint(result[p]) # send_message_endpoint(ApologyResponse)

\* C16: when the tool request of a turn lacks its required argument (query
\* of search_jobs, job_id of get_job_details), the job search is not called
\* and the turn ends as a failed turn: the apology, and no write.
MissingRequired(fc) ==
  \/ fc.name = "search_jobs" /\ "query" \notin fc.args.keys
  \/ fc.name = "get_job_details" /\ "job_id" \notin fc.args.keys

C16_MissingArgumentFails ==
  \A p \in Procs :
    (Events(p, "execute_function_call") # {}
       /\ MissingRequired(FunctionCallPart(response[p]))) =>
      /\ Events(p, "search_jobs") = {} /\ Events(p, "get_job_details") = {}
      /\ ReturnedApology(p)
      /\ Events(p, "update_one") = {}

\* The job-search call made by the tool of the turn.
ToolSearch(p) == {i \in Events(p, "search_jobs") : log[p][i].via = "tool"}
Answered(p) ==
  ToolSearch(p) # {} /\ ~log[p][Min(ToolSearch(p))].raised
AnsweredJobs(p) == log[p][Min(ToolSearch(p))].data

\* C18: when the job search answers a search_jobs execution with no jobs,
\* the result sent to the model has status no_results and the job cards of
\* the turn, as held and as returned, are the empty list, not None.
C18_EmptyListNotNone ==
  \A p \in Procs :
    (Answered(p) /\ AnsweredJobs(p) = <<>>) =>
      /\ function_result[p].status = "no_results"
      /\ job_cards[p] = PyList(<<>>)
      /\ ReturnedReply(p) => result[p].jobs = PyList(<<>>)

C20_SummaryCapped ==
  \A p \in Procs :
    (Answered(p) /\ Len(AnsweredJobs(p)) >= 1) =>
      LET n == Len(AnsweredJobs(p))
      IN /\ function_result[p].status = "success"
         /\ function_result[p].total_jobs_found = n
         /\ Len(function_result[p].jobs_summary) = (IF n < 10 THEN n ELSE 10)
         /\ \A i \in 1..Len(function_result[p].jobs_summary) :
              function_result[p].jobs_summary[i] = "- " \o AnsweredJobs(p)[i]
         /\ job_cards[p].kind = "list"
         /\ Len(job_cards[p].items) <= 10
         /\ ReturnedReply(p) => result[p].jobs = job_cards[p]

C20_Witness ==
  \E p \in Procs :
    /\ Answered(p) /\ Len(AnsweredJobs(p)) = 12
    /\ ReturnedReply(p)
    /\ function_result[p].total_jobs_found = 12
    /\ Len(function_result[p].jobs_summary) = 10
    /\ Len(result[p].jobs.items) = 10

\* C17: two turns that read the same session with the same request, and
\* differ only in the cards the job search answered (the selected job's
\* card, the job cards of the tool), submit the same prompt to the model
\* and, for the same tool request and model-facing result, the same
\* tool-result message.
SameInputs(p, q) ==
  /\ p # q
  /\ log[p] # <<>> /\ log[q] # <<>>
  /\ req[p] = req[q]
  /\ PreTurn(p) = PreTurn(q) /\ PreTurn(p) # NoChat

Submitted(p, k) ==
  LET i == CHOOSE j \in Events(p, "send_message") :
             Cardinality({h \in Events(p, "send_message") : h <= j}) = k
  IN log[p][i]

C17_CardsNeverInPrompt ==
  \A p, q \in Procs :
    SameInputs(p, q) =>
      /\ (Events(p, "send_message") # {} /\ Events(q, "send_message") # {}) =>
           Submitted(p, 1).prompt = Submitted(q, 1).prompt
      /\ (Cardinality(Events(p, "send_message")) = 2
            /\ Cardinality(Events(q, "send_message")) = 2
            /\ FunctionCallPart(response[p]) = FunctionCallPart(response[q])
            /\ AnsweredJobs(p) = AnsweredJobs(q)) =>
           Submitted(p, 2).function_response = Submitted(q, 2).function_response

\* C21: create_new_chat appends exactly one session to chat_history, the
\* sessions before it unchanged; the new session's messages are the one bot
\* greeting, its window and its summary are empty and its permanent_context
\* is not empty, also when the profile summarization raised.
C21_Step ==
  nextId' = nextId + 1 =>
    /\ Len(chat_history') = Len(chat_history) + 1
    /\ SubSeq(chat_history', 1, Len(chat_history)) = chat_history
    /\ LET new_chat == chat_history'[Len(chat_history')]
       IN /\ new_chat.id = nextId'
          /\ new_chat.messages = <<[sender |-> "bot", message |-> Greeting]>>
          /\ new_chat.context.recent_messages = <<>>
          /\ new_chat.context.conversation_summary = ""
          /\ new_chat.context.permanent_context # ""

C21_NewSession == [][C21_Step]_vars

\* C22: with one turn at a time, the stored messages of a session only grow
\* at the end: a step changes them only as the write of a turn on that
\* session, which adds the turn's user message and then its bot reply;
\* every other step, those of a failing turn included, leaves them as they
\* are.
Writes(p, id) == pc[p] = "write" /\ pc'[p] = "done" /\ req[p].chat_id = id

C22_Step ==
  \A id \in 1..nextId :
    (IsStored(id) /\ FindChat(chat_history', id) # 0) =>
      LET old == Stored(id).messages
          new == chat_history'[FindChat(chat_history', id)].messages
      IN /\ Len(new) >= Len(old) /\ SubSeq(new, 1, Len(old)) = old
         /\ \A p \in Procs :
              Writes(p, id) =>
                new = old \o <<[sender |-> "user", message |-> req[p].user_message],
                               [sender |-> "bot", message |-> result'[p].message]>>
         /\ (\A p \in Procs : ~Writes(p, id)) => new = old

C22_MessagesAppendOnly == [][C22_Step]_vars

C22_Witness ==
  \E p \in Procs :
    /\ ReturnedReply(p)
    /\ Len(PreTurn(p).messages) = 3
    /\ Len(Stored(req[p].chat_id).messages) = 5
    /\ SubSeq(Stored(req[p].chat_id).messages, 1, 3) = PreTurn(p).messages
    /\ Stored(req[p].chat_id).messages[4].sender = "user"
    /\ Stored(req[p].chat_id).messages[5] = [sender |-> "bot", message |-> result[p].message]

\* C23: a turn that got its final text and read a window of n <= 10 entries
\* has, from its write on, a window of min(n + 2, 10) entries whose last two
\* are its user message and then its bot reply.
C23_WindowAfterTurn ==
  \A p \in Procs :
    (pc[p] = "write" \/ ReturnedReply(p)) =>
      LET n == Len(PreTurn(p).context.recent_messages)
          w == chat[p].context.recent_messages
      IN /\ n <= 10
         /\ Len(w) = (IF n + 2 < 10 THEN n + 2 ELSE 10)
         /\ w[Len(w) - 1] = [sender |-> "user", message |-> req[p].user_message]
         /\ w[Len(w)] = [sender |-> "bot", message |-> final_response_text[p]]
         /\ ReturnedReply(p) => result[p].message = final_response_text[p]

C23_Witness ==
  \E p \in Procs :
    /\ ReturnedReply(p)
    /\ Len(PreTurn(p).context.recent_messages) = 10
    /\ Len(chat[p].context.recent_messages) = 10
    /\ chat[p].context.recent_messages[9].message = req[p].user_message
    /\ Stored(req[p].chat_id).context.recent_messages = chat[p].context.recent_messages

\* C24: the model calls, the tool execution, the summarization and the
\* write of a turn come in the order: first model call; if its reply holds
\* a tool request, the tool execution and then one second model call, which
\* submits the tool result; the summarization of a compacting turn; the
\* one write.  A second model call is made exactly when the tool was
\* executed, and the turn's context is untouched until its final text is
\* known.
Ordered == {"send_message", "execute_function_call", "summarize", "update_one"}
RECURSIVE Order(_)
Order(entries) ==
  IF entries = <<>> THEN <<>>
  ELSE (IF Head(entries).ev \in Ordered THEN <<Head(entries).ev>> ELSE <<>>)
         \o Order(Tail(entries))
IsPrefix(s, t) == Len(s) <= Len(t) /\ SubSeq(t, 1, Len(s)) = s
TurnOrders ==
  { <<"send_message", "update_one">>,
    <<"send_message", "summarize", "update_one">>,
    <<"send_message", "execute_function_call", "send_message", "update_one">>,
    <<"send_message", "execute_function_call", "send_message", "summarize",
      "update_one">> }
ToolDone(p) ==
  /\ Events(p, "execute_function_call") # {}
  /\ \A i \in 1..Len(log[p]) :
       log[p][i].ev \in {"search_jobs", "get_job_details"} =>
         (log[p][i].via = "tool" => ~log[p][i].raised)

C24_TurnOrder ==
  \A p \in Procs :
    /\ \E t \in TurnOrders : IsPrefix(Order(log[p]), t)
    /\ Events(p, "execute_function_call") # {} => HasCall(response[p])
    /\ Cardinality(Events(p, "send_message")) = 2 =>
         /\ ToolDone(p)
         /\ Submitted(p, 2).function_response
              = [name |-> Event(p, "execute_function_call").name,
                 response |-> function_result[p]]
    /\ (ToolDone(p) /\ pc[p] # "model2") =>
         Cardinality(Events(p, "send_message")) = 2
    /\ (pc[p] \in {"selected", "model1", "tool", "model2"}) => chat[p] = PreTurn(p)

C24_Witness ==
  \E p \in Procs :
    /\ ReturnedReply(p)
    /\ Order(log[p]) = <<"send_message", "execute_function_call", "send_message",
                         "summarize", "update_one">>
    /\ HasCall(final_response[p])

\* C25: a turn that has ended has given its caller a reply (the normal
\* reply, a not-found message or the apology), and no turn makes more than
\* two model calls, one tool execution, one summarization call and one
\* write, whatever tool requests the model's replies hold.
GaveReply(p) ==
  \/ ReturnedReply(p)
  \/ ReturnedApology(p)
  \/ pc[p] = "done" /\ result[p] \in {NotFoundResponse(UserNotFound), NotFoundResponse(ChatNotFound)}

C25_TurnEndsWithReply ==
  \A p \in Procs :
    /\ (pc[p] = "done" /\ log[p] # <<>>) =>
         GaveReply(p) /\ send_message_endpoint(result[p]).status = 200
    /\ Cardinality(Events(p, "send_message")) <= 2
    /\ Cardinality(Events(p, "execute_function_call")) <= 1
    /\ Cardinality(Events(p, "summarize")) <= 1
    /\ Cardinality(Events(p, "update_one")) <= 1

\* C26: a turn calls the job search at most once, and only after a model
\* reply that requests a tool.
JobSearchCalls(p) ==
  {i \in 1..Len(log[p]) : log[p][i].ev \in {"search_jobs", "get_job_details"}}

C26_OneJobSearchCall ==
  \A p \in Procs :
    /\ Cardinality(JobSearchCalls(p)) <= 1
    /\ \A i \in JobSearchCalls(p) :
         /\ HasCall(response[p])
         /\ \E j \in Events(p, "send_message") : j < i

\* C27: a turn whose summarization call raised goes on to its write and
\* returns the model's reply; the session then holds the turn's two new
\* messages at the end of its messages and the last 10 entries of the
\* extended window as its window.
SummarizeRaised(p) ==
  Events(p, "summarize") # {} /\ Event(p, "summarize").raised

C27_SummarizeFailureKeepsTurn ==
  \A p \in Procs :
    SummarizeRaised(p) =>
      /\ pc[p] \in {"write", "done"}
      /\ pc[p] = "done" =>
           /\ ReturnedReply(p)
           /\ result[p].message = final_response_text[p]
           /\ result[p].message
                = (IF HasCall(response[p]) THEN FinalTextAfterTool(final_response[p])
                   ELSE ResponseText(response[p]))
           /\ Event(p, "update_one").matched
           /\ Stored(req[p].chat_id).messages
                = PreTurn(p).messages
                    \o <<[sender |-> "user", message |-> req[p].user_message],
                         [sender |-> "bot", message |-> result[p].message]>>
           /\ Stored(req[p].chat_id).context.recent_messages
                = SubSeq(Extended(p), Len(Extended(p)) - 9, Len(Extended(p)))

C27_Witness ==
  \E p \in Procs :
    /\ SummarizeRaised(p) /\ ReturnedReply(p)
    /\ HasCall(response[p])
    /\ Len(Extended(p)) = 12
    /\ Len(Stored(req[p].chat_id).context.recent_messages) = 10
    /\ Len(Stored(req[p].chat_id).messages) = 15

\* C28: in every stored session the window is the tail of the messages
\* after the greeting: its entries are the last min(10, Len(messages) - 1)
\* entries of the messages list, in order, also after interleaved turns of
\* which one lost its update.
C28_WindowIsTail ==
  \A i \in 1..Len(chat_history) :
    LET messages == chat_history[i].messages
        k == IF Len(messages) - 1 < 10 THEN Len(messages) - 1 ELSE 10
    IN chat_history[i].context.recent_messages
         = SubSeq(messages, Len(messages) - k + 1, Len(messages))

C28_Witness ==
  \E p, q \in Procs :
    /\ ReadTheSame(p, q)
    /\ Events(p, "summarize") # {} /\ Events(q, "summarize") # {}
    /\ Event(p, "update_one").matched /\ Event(q, "update_one").matched
    /\ Len(Stored(req[p].chat_id).messages) = 13
    /\ Len(Stored(req[p].chat_id).context.recent_messages) = 10
    /\ Stored(req[p].chat_id).messages[3].sender = "bot"
    /\ Stored(req[p].chat_id).context.recent_messages[1] = Stored(req[p].chat_id).messages[4]

\* C29: the write of a turn changes no session but the one whose id the
\* turn was given: every other session is left as it is, and when that
\* session is not at the index the turn read it at, the write changes
\* nothing at all.
C29_Step ==
  \A p \in Procs :
    (pc[p] = "write" /\ pc'[p] = "done") =>
      /\ Len(chat_history') = Len(chat_history)
      /\ \A i \in 1..Len(chat_history) :
           chat_history[i].id # req[p].chat_id => chat_history'[i] = chat_history[i]
      /\ (chat_index[p] > Len(chat_history)
           \/ chat_history[chat_index[p]].id # req[p].chat_id) =>
            chat_history' = chat_history

C29_WriteOnlyOwnSession == [][C29_Step]_vars

C29_Witness ==
  \E p \in Procs :
    /\ ReturnedReply(p)
    /\ ~Event(p, "update_one").matched
    /\ chat_index[p] <= Len(chat_history)
    /\ chat_history[chat_index[p]].id # req[p].chat_id
    /\ Len(chat_history[chat_index[p]].messages) = 1

\* C30: in sequential execution from a window of at most 10 entries, the
\* messages a turn hands to the summarizer are exactly those its extended
\* window loses (none of the 10 it retains), and for every session the
\* messages handed over by the turns that were written, in order, followed by
\* the session's window are its messages after the greeting: each message
\* that left the window was handed over once by a written turn, and none
\* that is still in the window was. A turn whose write raises has handed its
\* overflow over and stores nothing, so the next compacting turn hands the
\* same messages over again; the original statement counts those too.
Entries(handed) == [i \in 1..Len(handed) |-> handed[i].entry]

\* The messages (not the folded-in summary) handed over for a session.
Handed(chat_id) ==
  SelectSeq(summarized, LAMBDA h : h.id = chat_id /\ h.entry.sender # "system")

\* Those handed over by turns whose user message is in the given list.
HandedBy(chat_id, messages) ==
  SelectSeq(Handed(chat_id), LAMBDA h : HasUserMessage(messages, h.turn))

\* The session as its latest turn leaves it: what a turn about to write
\* holds, else what is stored.
Latest(i) ==
  IF \E p \in Procs : pc[p] = "write" /\ chat[p].id = chat_history[i].id
  THEN chat[CHOOSE p \in Procs : pc[p] = "write" /\ chat[p].id = chat_history[i].id]
  ELSE chat_history[i]

C30_TurnHandsOverflow ==
  \A p \in Procs :
    (pc[p] = "write" \/ ReturnedReply(p)) /\ Len(Extended(p)) > 10 =>
      /\ Events(p, "summarize") # {}
      /\ SelectSeq(Event(p, "summarize").messages, LAMBDA m : m.sender # "system")
           = Overflow(p)
      /\ chat[p].context.recent_messages
           = SubSeq(Extended(p), Len(Overflow(p)) + 1, Len(Extended(p)))

C30_HandedExactlyOnce ==
  /\ C30_TurnHandsOverflow
  /\ \A i \in 1..Len(chat_history) :
       Entries(Handed(chat_history[i].id)) \o Latest(i).context.recent_messages
         = Tail(Latest(i).messages)

C30_HandedOncePerWrittenTurn ==
  /\ C30_TurnHandsOverflow
  /\ \A i \in 1..Len(chat_history) :
       Entries(HandedBy(chat_history[i].id, Latest(i).messages))
           \o Latest(i).context.recent_messages
         = Tail(Latest(i).messages)

\* A compacting turn failed to write and the next one compacted and wrote.
C30_Witness ==
  \E p \in Procs :
    /\ ReturnedReply(p) /\ Events(p, "summarize") # {}
    /\ Len(Handed(req[p].chat_id)) = 4
    /\ Len(HandedBy(req[p].chat_id, Stored(req[p].chat_id).messages)) = 2
    /\ Len(Stored(req[p].chat_id).messages) = 13

====
